---- MODULE Spec2Model ----
(***************************************************************************)
(* The self-healing pipeline of handle_bad_data/notebook.ipynb: raw CSV    *)
(* lines are read against a schema in PERMISSIVE mode, new lines are       *)
(* unioned with the previously invalid ones, the batch is split on the     *)
(* _corrupt_record column, and the two groups are written with mode        *)
(* "overwrite" to output/good and output/bad.                              *)
(*                                                                         *)
(* A raw line is a sequence of one-character strings, so that splitting,   *)
(* integer parsing and the verbatim copy into _corrupt_record are computed *)
(* and not assumed.  A cell of a DataFrame is a record [t, i, s]: a null,  *)
(* an integer or a string.                                                 *)
(***************************************************************************)
EXTENDS Integers, Sequences, FiniteSets, Bags, TLC

(* ------------------------------ bounds --------------------------------- *)
\* Longest raw line ParseSpec enumerates.
MaxLineLen == 5
\* Most new lines one run ingests under Spec.
MaxNew == 2
\* Most lines the environment supplies in one behaviour of Spec (new lines
\* plus upstream corrections).
MaxInputs == 3
\* Most runs of the notebook in one behaviour.
MaxRuns == 3

(* --------------------------- cells and lines --------------------------- *)
Chars == {"1", "a", ","}

Null == [t |-> "null", i |-> 0, s |-> <<>>]
IntVal(n) == [t |-> "int", i |-> n, s |-> <<>>]
StrVal(str) == [t |-> "str", i |-> 0, s |-> str]

Range(f) == {f[x] : x \in DOMAIN f}

LinesUpTo(n) == UNION {[1..k -> Chars] : k \in 0..n}

\* The notebook's test lines on the alphabet above: a well-formed line,
\* "4,Alice Johnson,twenty" (age is no integer), "5,45,Charlie Brown"
\* (columns swapped), a line with a missing column and a blank line.
SampleLines ==
    { <<"1", ",", "a", ",", "1">>,
      <<"1", ",", "a", ",", "a">>,
      <<"1", ",", "1", ",", "a">>,
      <<"1", ",", "a">>,
      <<>> }

BatchesUpTo(n) == UNION {[1..k -> SampleLines] : k \in 0..n}

(* ------------------------------- schema -------------------------------- *)
schema ==
    << [name |-> "id", type |-> "Integer", nullable |-> TRUE],
       [name |-> "name", type |-> "String", nullable |-> TRUE],
       [name |-> "age", type |-> "Integer", nullable |-> TRUE],
       [name |-> "_corrupt_record", type |-> "String", nullable |-> TRUE] >>

\* spark.sql.columnNameOfCorruptRecord, the reader's default.
columnNameOfCorruptRecord == "_corrupt_record"

IsDataField(f) == f.name # columnNameOfCorruptRecord

\* The columns the CSV tokens are decoded into.
dataSchema == SelectSeq(schema, IsDataField)

\* The reader's defaults: sep, nullValue.
Delimiter == ","
nullValue == <<>>

\* The parse mode of spark.read...csv when no "mode" option is given.
ParseMode_FailFast == "FAILFAST"
ParseMode == "PERMISSIVE"

\* IntegerType is a 32-bit signed integer.
IntMax == 2147483647

(* --------------------------- the CSV decoder --------------------------- *)
DigitChars == <<"0", "1", "2", "3", "4", "5", "6", "7", "8", "9">>
IsDigit(c) == \E d \in 1..Len(DigitChars) : DigitChars[d] = c
DigitVal(c) == (CHOOSE d \in 1..Len(DigitChars) : DigitChars[d] = c) - 1

RECURSIVE Decimal(_)
Decimal(tok) ==
    IF tok = <<>> THEN 0
    ELSE Decimal(SubSeq(tok, 1, Len(tok) - 1)) * 10 + DigitVal(tok[Len(tok)])

\* String.toInt on a token without a sign.
CanToInt(tok) ==
    /\ Len(tok) > 0
    /\ \A k \in 1..Len(tok) : IsDigit(tok[k])
    /\ Decimal(tok) <= IntMax

\* The tokenizer: the line split at every delimiter, empty tokens kept.
RECURSIVE Tokens(_)
Tokens(line) ==
    IF \A k \in 1..Len(line) : line[k] # Delimiter THEN <<line>>
    ELSE LET p == CHOOSE k \in 1..Len(line) :
                      /\ line[k] = Delimiter
                      /\ \A j \in 1..(k - 1) : line[j] # Delimiter
         IN <<SubSeq(line, 1, p - 1)>> \o Tokens(SubSeq(line, p + 1, Len(line)))

\* One token against one field: the null value gives null in a nullable
\* field, an Integer field takes a token toInt accepts, a String field
\* takes any token.  (The first variant takes any token in any field.)
makeConverter_IntAsString(f, tok) ==
    IF tok = nullValue
    THEN [ok |-> f.nullable, v |-> Null]
    ELSE [ok |-> TRUE, v |-> StrVal(tok)]
makeConverter(f, tok) ==
    IF tok = nullValue
    THEN [ok |-> f.nullable, v |-> Null]
    ELSE IF f.type = "Integer"
         THEN IF CanToInt(tok)
              THEN [ok |-> TRUE, v |-> IntVal(Decimal(tok))]
              ELSE [ok |-> FALSE, v |-> Null]
         ELSE [ok |-> TRUE, v |-> StrVal(tok)]

\* One line against the data columns: a token too many, a token too few or
\* a token that does not convert makes the line malformed; the cells that
\* did convert are kept, the others are null.
convert(line) ==
    LET tokens == Tokens(line)
        n == Len(dataSchema)
        cells == [k \in 1..n |->
                    IF k <= Len(tokens)
                    THEN makeConverter(dataSchema[k], tokens[k])
                    ELSE [ok |-> FALSE, v |-> Null]]
    IN [row |-> [k \in 1..n |-> IF cells[k].ok THEN cells[k].v ELSE Null],
        malformed |-> Len(tokens) > n \/ \E k \in 1..n : ~cells[k].ok]

\* A variant that rebuilds the text from the tokens the schema has room for.
RECURSIVE JoinTokens(_)
JoinTokens(toks) ==
    IF Len(toks) = 0 THEN <<>>
    ELSE IF Len(toks) = 1 THEN toks[1]
         ELSE toks[1] \o <<Delimiter>> \o JoinTokens(Tail(toks))
corruptText_Rebuilt(line) ==
    LET toks == Tokens(line)
        n == IF Len(toks) < Len(dataSchema) THEN Len(toks) ELSE Len(dataSchema)
    IN JoinTokens(SubSeq(toks, 1, n))

\* What the _corrupt_record column of a malformed line holds: the line.
corruptText(line) == line

\* One line under a parse mode: its rows, or an error (FAILFAST).
parse(line, mode) ==
    LET c == convert(line)
    IN IF ~c.malformed
       THEN [rows |-> <<c.row \o <<Null>>>>, error |-> FALSE]
       ELSE IF mode = "PERMISSIVE"
            THEN [rows |-> <<c.row \o <<StrVal(corruptText(line))>>>>,
                  error |-> FALSE]
            ELSE IF mode = "DROPMALFORMED"
                 THEN [rows |-> <<>>, error |-> FALSE]
                 ELSE [rows |-> <<>>, error |-> TRUE]

\* Lines that are empty once trimmed are filtered out before parsing.
Whitespace == {" "}
IsBlank(line) == \A k \in 1..Len(line) : line[k] \in Whitespace
NotBlank(line) == ~IsBlank(line)
filterCommentAndEmpty(rdd) == SelectSeq(rdd, NotBlank)

RECURSIVE parseAll(_, _)
parseAll(lines, mode) ==
    IF lines = <<>> THEN [rows |-> <<>>, error |-> FALSE]
    ELSE LET h == parse(Head(lines), mode)
             t == parseAll(Tail(lines), mode)
         IN [rows |-> h.rows \o t.rows, error |-> h.error \/ t.error]

\* spark.read.schema(schema).csv(rdd)
csv(rdd) == parseAll(filterCommentAndEmpty(rdd), ParseMode)

(* --------------------------- the DataFrame ops ------------------------- *)
CorruptIdx == CHOOSE k \in 1..Len(schema) : schema[k].name = columnNameOfCorruptRecord

union_NewOnly(a, b) == a
union_Twice(a, b) == a \o b \o b
union(a, b) == a \o b

corruptIsNull(r) == r[CorruptIdx] = Null
corruptIsNotNull(r) == r[CorruptIdx] # Null

dropCorrupt(r) == SubSeq(r, 1, CorruptIdx - 1) \o SubSeq(r, CorruptIdx + 1, Len(r))
selectCorrupt(r) == <<r[CorruptIdx]>>

\* combined_df.filter(col("_corrupt_record").isNull()).drop("_corrupt_record")
validOf_NoFilter(df) == [k \in 1..Len(df) |-> dropCorrupt(df[k])]
validOf(df) ==
    LET kept == SelectSeq(df, corruptIsNull)
    IN [k \in 1..Len(kept) |-> dropCorrupt(kept[k])]

\* combined_df.filter(col("_corrupt_record").isNotNull()).select("_corrupt_record")
invalidOf(df) ==
    LET kept == SelectSeq(df, corruptIsNotNull)
    IN [k \in 1..Len(kept) |-> selectCorrupt(kept[k])]

\* .write.mode("overwrite"): the destination holds the new rows only.
writeMode_Append(old, new) == old \o new
writeMode(old, new) == new

\* .text(path): one line per row, the row's only column.
textLine(r) == r[1].s
asText(df) == [k \in 1..Len(df) |-> textLine(df[k])]

(* ------------------------------- state --------------------------------- *)
VARIABLES
    pc,                   \* the cell the notebook has reached in this run
    new_data_rdd,         \* the raw lines ingested by this run
    previous_invalid_rdd, \* the raw lines quarantined by earlier runs
    new_df,
    previous_invalid_df,
    combined_df,
    valid_df,
    invalid_df,
    good,                 \* the rows under output/good
    bad,                  \* the lines under output/bad: the pending set
    bad_history,          \* the lines under output/bad_history
    good_before,          \* history: good when this run started
    bad_before,           \* history: bad when this run started
    ingested,             \* history: the bag of lines supplied so far
    inputs,               \* history: how many lines were supplied so far
    runs,                 \* history: how many runs were started
    quiet,                \* history: consecutive undisturbed runs without new lines
    fault,                \* history: the fault that ended this run
    clean,                \* history: no run has failed so far
    corrected             \* history: the last upstream correction

frames == <<new_df, previous_invalid_df, combined_df, valid_df, invalid_df>>
rdds == <<new_data_rdd, previous_invalid_rdd>>
stores == <<good, bad, bad_history>>
snapshot == <<good_before, bad_before>>
counters == <<inputs, runs>>
vars == <<pc, rdds, frames, stores, snapshot, ingested, counters, quiet, fault,
          clean, corrected>>

NoCorrection == [done |-> FALSE, from |-> <<>>, to |-> <<>>]

\* Before the first run: no output directory exists yet.
Init ==
    /\ pc = "Idle"
    /\ new_data_rdd = <<>>
    /\ previous_invalid_rdd = <<>>
    /\ new_df = <<>>
    /\ previous_invalid_df = <<>>
    /\ combined_df = <<>>
    /\ valid_df = <<>>
    /\ invalid_df = <<>>
    /\ good = <<>>
    /\ bad = <<>>
    /\ bad_history = <<>>
    /\ good_before = <<>>
    /\ bad_before = <<>>
    /\ ingested = EmptyBag
    /\ inputs = 0
    /\ runs = 0
    /\ quiet = 0
    /\ fault = "none"
    /\ clean = TRUE
    /\ corrected = NoCorrection

RECURSIVE BagOfSeq(_)
BagOfSeq(s) == IF s = <<>> THEN EmptyBag ELSE SetToBag({Head(s)}) (+) BagOfSeq(Tail(s))

(* ------------------------------ one run -------------------------------- *)
\* Cell 2: the new lines of this run, and the lines to reprocess, which are
\* the lines the last run left under output/bad.
LoadData(new) ==
    /\ pc \in {"Idle", "End", "Failed"}
    /\ runs < MaxRuns
    /\ inputs + Len(new) <= MaxInputs
    /\ new_data_rdd' = new
    /\ previous_invalid_rdd' = bad
    /\ pc' = "Start"
    /\ good_before' = good
    /\ bad_before' = bad
    /\ ingested' = ingested (+) BagOfSeq(new)
    /\ inputs' = inputs + Len(new)
    /\ runs' = runs + 1
    /\ quiet' = IF new = <<>> THEN (IF quiet < 2 THEN quiet + 1 ELSE 2) ELSE 0
    /\ fault' = "none"
    /\ UNCHANGED <<frames, stores, clean, corrected>>

Start == \E new \in BatchesUpTo(MaxNew) : LoadData(new)

\* Cell 3: both RDDs read against the schema, then unioned.  A parse error
\* (any mode but PERMISSIVE) fails the run.
ReadCsv ==
    /\ pc = "Start"
    /\ LET n == csv(new_data_rdd)
           p == csv(previous_invalid_rdd)
       IN IF n.error \/ p.error
          THEN /\ pc' = "Failed"
               /\ fault' = "DecodeError"
               /\ clean' = FALSE
               /\ quiet' = 0
               /\ UNCHANGED frames
          ELSE /\ pc' = "Decoded"
               /\ new_df' = n.rows
               /\ previous_invalid_df' = p.rows
               /\ combined_df' = union(n.rows, p.rows)
               /\ UNCHANGED <<valid_df, invalid_df, fault, clean, quiet>>
    /\ UNCHANGED <<rdds, stores, snapshot, ingested, counters, corrected>>

\* Cell 4: the split on _corrupt_record.
Classify ==
    /\ pc = "Decoded"
    /\ valid_df' = validOf(combined_df)
    /\ invalid_df' = invalidOf(combined_df)
    /\ pc' = "Classified"
    /\ UNCHANGED <<rdds, new_df, previous_invalid_df, combined_df, stores,
                   snapshot, ingested, counters, quiet, fault, clean, corrected>>

\* Cell 6, first statement: valid_df overwrites output/good.
WriteGood ==
    /\ pc = "Classified"
    /\ good' = writeMode(good, valid_df)
    /\ pc' = "Emitted"
    /\ UNCHANGED <<rdds, frames, bad, bad_history, snapshot, ingested,
                   counters, quiet, fault, clean, corrected>>

\* The write to output/good raises.  An overwrite deletes the destination
\* before the job writes, so the old rows are either still there or gone.
WriteGoodFails ==
    /\ pc = "Classified"
    /\ \E left \in {good, <<>>} : good' = left
    /\ pc' = "Failed"
    /\ fault' = "SinkError"
    /\ clean' = FALSE
    /\ quiet' = 0
    /\ UNCHANGED <<rdds, frames, bad, bad_history, snapshot, ingested,
                   counters, corrected>>

\* Cell 6, second statement: invalid_df overwrites output/bad as text.  The
\* append to output/bad_history is commented out in the notebook.
WriteBad ==
    /\ pc = "Emitted"
    /\ bad' = writeMode(bad, asText(invalid_df))
    /\ pc' = "End"
    /\ UNCHANGED <<rdds, frames, good, bad_history, snapshot, ingested,
                   counters, quiet, fault, clean, corrected>>

\* The write to output/bad raises, after output/good was written.
WriteBadFails ==
    /\ pc = "Emitted"
    /\ \E left \in {bad, <<>>} : bad' = left
    /\ pc' = "Failed"
    /\ fault' = "StoreError"
    /\ clean' = FALSE
    /\ quiet' = 0
    /\ UNCHANGED <<rdds, frames, good, bad_history, snapshot, ingested,
                   counters, corrected>>

\* Between two runs the upstream corrects one quarantined line in place; the
\* notebook is idle until its next run.
CorrectUpstream ==
    /\ pc \in {"End", "Failed"}
    /\ inputs < MaxInputs
    /\ \E k \in DOMAIN bad : \E line \in SampleLines \ {bad[k]} :
          /\ bad' = [bad EXCEPT ![k] = line]
          /\ corrected' = [done |-> TRUE, from |-> bad[k], to |-> line]
          /\ ingested' = (ingested (-) SetToBag({bad[k]})) (+) SetToBag({line})
    /\ pc' = "Idle"
    /\ inputs' = inputs + 1
    /\ quiet' = 0
    /\ UNCHANGED <<rdds, frames, good, bad_history, snapshot, runs, fault,
                   clean>>

Next ==
    \/ Start
    \/ ReadCsv
    \/ Classify
    \/ WriteGood
    \/ WriteGoodFails
    \/ WriteBad
    \/ WriteBadFails
    \/ CorrectUpstream

Spec == Init /\ [][Next]_vars

\* The decoder alone: the first run ingests one line, any line up to
\* MaxLineLen characters; the later runs ingest nothing and reprocess what
\* was quarantined.
ParseStart ==
    \E new \in (IF pc = "Idle" THEN {<<line>> : line \in LinesUpTo(MaxLineLen)}
                ELSE {<<>>}) : LoadData(new)

ParseNext ==
    \/ ParseStart
    \/ ReadCsv
    \/ Classify
    \/ WriteGood
    \/ WriteBad

ParseSpec == Init /\ [][ParseNext]_vars

(* ------------------- what the schema asks of a line -------------------- *)
\* Stated on the text of the line, independently of the decoder above.
DelimPositions(line) == {k \in 1..Len(line) : line[k] = ","}
FieldsIn(line) == Cardinality(DelimPositions(line)) + 1
NthDelim(line, j) ==
    CHOOSE k \in DelimPositions(line) :
        Cardinality({m \in DelimPositions(line) : m <= k}) = j
FieldText(line, j) ==
    LET first == IF j = 1 THEN 1 ELSE NthDelim(line, j - 1) + 1
        last == IF j = FieldsIn(line) THEN Len(line) ELSE NthDelim(line, j) - 1
    IN [k \in 1..(last - first + 1) |-> line[first + k - 1]]

Numerals == {"0", "1", "2", "3", "4", "5", "6", "7", "8", "9"}
NumeralValue(c) ==
    CASE c = "0" -> 0 [] c = "1" -> 1 [] c = "2" -> 2 [] c = "3" -> 3
      [] c = "4" -> 4 [] c = "5" -> 5 [] c = "6" -> 6 [] c = "7" -> 7
      [] c = "8" -> 8 [] c = "9" -> 9
RECURSIVE NumberFrom(_, _)
NumberFrom(acc, tok) ==
    IF tok = <<>> THEN acc
    ELSE NumberFrom(acc * 10 + NumeralValue(Head(tok)), Tail(tok))

Coerces(f, text) ==
    IF text = <<>> THEN f.nullable
    ELSE f.type = "Integer" =>
            /\ \A k \in 1..Len(text) : text[k] \in Numerals
            /\ NumberFrom(0, text) <= 2147483647
Coerced(f, text) ==
    IF text = <<>> THEN Null
    ELSE IF f.type = "Integer" THEN IntVal(NumberFrom(0, text))
         ELSE StrVal(text)

FieldNames == <<"id", "name", "age">>
FieldOf(j) == CHOOSE f \in Range(schema) : f.name = FieldNames[j]

WellFormed(line) ==
    /\ FieldsIn(line) = Len(FieldNames)
    /\ \A j \in 1..Len(FieldNames) : Coerces(FieldOf(j), FieldText(line, j))
ExpectedRow(line) ==
    [j \in 1..Len(FieldNames) |-> Coerced(FieldOf(j), FieldText(line, j))]

IsRecord(line) == line # <<>>
IsCorruptRecord(line) == IsRecord(line) /\ ~WellFormed(line)
IsValidRecord(line) == IsRecord(line) /\ WellFormed(line)

\* The combined batch of this run, as raw lines.
Batch == new_data_rdd \o previous_invalid_rdd
CountIn(s, x) == Cardinality({k \in DOMAIN s : s[k] = x})
Classified == pc \in {"Classified", "Emitted", "End"}

(* ------------------------------- claims -------------------------------- *)

\* C1: malformed input never fails a run.  A run is in Failed only after a
\* sink or store fault, and once the batch is decoded every line that
\* violates the schema is a row whose _corrupt_record is set.
C1_MalformedInputNeverFails ==
    /\ pc = "Failed" => fault \in {"SinkError", "StoreError"}
    /\ pc \in {"Decoded", "Classified", "Emitted", "End"} =>
          /\ Len(combined_df) = Len(SelectSeq(Batch, IsRecord))
          /\ \A line \in Range(Batch) :
                IsCorruptRecord(line) =>
                    \E r \in Range(combined_df) : r[Len(r)] = StrVal(line)
C1_Witness ==
    /\ pc = "End"
    /\ fault = "none"
    /\ \E line \in Range(Batch) : IsCorruptRecord(line)
    /\ \E line \in Range(Batch) : IsValidRecord(line)

C3_RawTextVerbatim ==
    LET corrupt == SelectSeq(Batch, IsCorruptRecord)
    IN /\ Classified =>
            invalid_df = [k \in 1..Len(corrupt) |-> <<StrVal(corrupt[k])>>]
       /\ pc = "End" => bad = corrupt
C3_Witness ==
    /\ pc = "End"
    /\ runs > 1
    /\ bad # <<>>
    /\ bad = previous_invalid_rdd
    /\ FieldsIn(bad[1]) > Len(FieldNames)

\* C4: after a run no record is both in the Valid output and pending.  The
\* two groups split the decoded batch, a pending line is never well-formed
\* and a row of the good output is always the row of a well-formed line.
C4_ValidAndCorruptDisjoint ==
    /\ Classified => Len(valid_df) + Len(invalid_df) = Len(combined_df)
    /\ pc = "End" =>
          /\ Len(good) + Len(bad) = Len(SelectSeq(Batch, IsRecord))
          /\ \A line \in Range(bad) : ~WellFormed(line)
          /\ \A r \in Range(good) :
                \E line \in Range(Batch) : IsValidRecord(line) /\ ExpectedRow(line) = r
C4_Witness ==
    /\ pc = "End"
    /\ good # <<>>
    /\ bad # <<>>

\* C5: a failed run leaves the good destination and the pending set as they
\* were before the run.
C5_FailedRunChangesNothing ==
    pc = "Failed" => (good = good_before /\ bad = bad_before)

\* C6: two consecutive runs without new input leave the pending set after
\* the second run as it was after the first.
C6_Idempotent ==
    (pc = "End" /\ quiet = 2) => bad = bad_before
C6_Witness ==
    /\ pc = "End"
    /\ quiet = 2
    /\ bad # <<>>

\* C7: a pending line that satisfies the schema when a run starts (its
\* input was corrected) is, when the run ends, a row of the good
\* destination and no longer pending.
C7_Rescue ==
    pc = "End" =>
        \A line \in Range(previous_invalid_rdd) :
            IsValidRecord(line) =>
                /\ ExpectedRow(line) \in Range(good)
                /\ line \notin Range(bad)
C7_Witness ==
    /\ pc = "End"
    /\ corrected.done
    /\ IsCorruptRecord(corrected.from)
    /\ IsValidRecord(corrected.to)
    /\ corrected.to \in Range(previous_invalid_rdd)
    /\ ExpectedRow(corrected.to) \in Range(good)
    /\ corrected.to \notin Range(bad)

\* C8: after successful runs only, every record ingested so far is exactly
\* once in the good destination or pending.
C8_NothingLostNothingTwice ==
    (pc = "End" /\ clean) =>
        \A line \in BagToSet(ingested) :
            IsRecord(line) =>
                CopiesIn(line, ingested) =
                    IF WellFormed(line)
                    THEN CountIn(good, ExpectedRow(line))
                    ELSE CountIn(bad, line)

\* C9: after a successful commit the pending set is the Corrupt set of the
\* run: the lines of invalid_df and nothing else, so a previously pending
\* line that decoded Valid is gone and every Corrupt line is pending.
C9_PendingIsCorruptSet ==
    pc = "End" =>
        /\ Len(bad) = Len(invalid_df)
        /\ \A k \in 1..Len(bad) : invalid_df[k] = <<StrVal(bad[k])>>
        /\ \A line \in Range(bad_before) :
              IsValidRecord(line) => line \notin Range(bad)
        /\ \A line \in Range(Batch) :
              IsCorruptRecord(line) => CountIn(bad, line) = CountIn(Batch, line)
C9_Witness ==
    /\ pc = "End"
    /\ \E line \in Range(bad_before) : IsValidRecord(line)
    /\ \E line \in Range(bad_before) : IsCorruptRecord(line)
    /\ bad # <<>>
    /\ bad # bad_before

\* C10: the history never loses an entry, and after a successful run it
\* holds an entry for every record the run classified Corrupt.
C10_HistoryAppendOnly ==
    [][ /\ Len(bad_history) <= Len(bad_history')
        /\ SubSeq(bad_history', 1, Len(bad_history)) = bad_history
        /\ pc' = "End" => \A line \in Range(bad') : line \in Range(bad_history')
      ]_vars

====
